---- MODULE Spec2Model ----
(***************************************************************************)
(* A model of qcoro/task.h: QCoro::Task<T>, its promise (TaskPromiseBase,  *)
(* TaskPromise<T>), the final-suspend awaiter (TaskFinalSuspend) and the   *)
(* awaiter returned by operator co_await (TaskAwaiterBase / TaskAwaiter).  *)
(*                                                                         *)
(* Coroutines 1..depth form a chain: coroutine c calls coroutine c+1 and   *)
(* co_awaits the Task it returns, then co_awaits nExt[c] external          *)
(* awaitables (timers, I/O), then co_returns a value or throws.            *)
(* Coroutine 1 is called from a plain function (frame 0) that keeps the    *)
(* Task and never awaits it.  An external awaitable resumes the coroutine  *)
(* from the event loop of any thread.                                      *)
(*                                                                         *)
(* Each thread has a call stack of frames; coroutine_handle::resume() is   *)
(* a nested call that pushes a frame which starts at the resume point      *)
(* stored in the coroutine frame.  Plain memory is sequentially            *)
(* consistent.  resume() of a coroutine that another thread is running is  *)
(* a data race: the body runs again from the stored resume point.          *)
(* resume() of a finished, destroyed or null coroutine is undefined: the   *)
(* process crashes or the call has no effect (and a destroyed frame whose  *)
(* memory is still intact may also run).  Code that runs in a destroyed    *)
(* frame sees the memory the frame had, or crashes.                        *)
(*                                                                         *)
(* Spec is the await protocol.  SpecTask is the Task object on its own:    *)
(* every sequence of constructions, moves and destructions of Task objects *)
(* over a few coroutines, which may finish, and of co_awaits on a Task     *)
(* that is ready.  SpecResult is the result of a coroutine on its own:     *)
(* TaskPromise<T> and TaskPromise<void> completed in the same way and      *)
(* read.                                                                   *)
(***************************************************************************)
EXTENDS Integers, Sequences, FiniteSets, TLC

\* ---- bounds ----
NCoro == 3
MaxExt == 2
MaxTotalExt == 3
NThreads == 2
NTasks == 3
NTaskCoros == 2
MaxOps == 5

Coros == 1..NCoro
Threads == 1..NThreads
\* Task objects and coroutines of the handle operations (SpecTask)
Handles == 1..NTasks
TaskCoros == 1..NTaskCoros
Values == {"v1", "v2"}
Failures == {"e1"}

\* std::variant<std::monostate, T, std::exception_ptr> mValue
Empty == [tag |-> "monostate", v |-> "none"]
ValueOf(v) == [tag |-> "value", v |-> v]
FailureOf(e) == [tag |-> "exception", v |-> e]
\* std::bad_variant_access, thrown by std::get<T> on a variant that holds no T
BadAccess == "bad_variant_access"
NoExc == "none"
\* what a consumer's await_resume produced
NotRead == [kind |-> "notread", v |-> "none"]
Returned(v) == [kind |-> "return", v |-> v]
Raised(e) == [kind |-> "raise", v |-> e]

VARIABLES
  depth,               \* number of coroutines in the chain
  nExt,                \* nExt[c]: external awaits in the body of c
  stack,               \* stack[t]: call stack of thread t, top is the last frame
  status,              \* status[c]: "none", "live" or "destroyed" (coroutine frame)
  done,                \* done[c]: coroutine_handle::done()
  rp,                  \* rp[c]: resume point stored in the coroutine frame
  mValue,              \* TaskPromise<T>::mValue
  mAwaitingCoroutine,  \* TaskPromiseBase::mAwaitingCoroutine (0 is null)
  mResumeAwaiter,      \* TaskPromiseBase::mResumeAwaiter
  events,              \* events[c]: pending callbacks of external awaitables
  crashed,             \* the process has crashed
  ub,                  \* kinds of undefined behaviour that have happened
  mCoroutine,          \* Task::mCoroutine of every Task object (0 is null); in Spec
                       \* the Task numbered c is the one coroutine c returns
  hState,              \* "none", "alive" or "dead" for every Task object
  teardowns,           \* teardowns[c]: coroutine_handle::destroy() calls on c
  nOps,                \* operations performed (SpecTask)
  lastOp,              \* the last operation performed (SpecTask)
  got,                 \* got[c]: what await_resume of c's co_await produced
                       \* (in SpecTask got[h]: what a co_await on Task h produced)
  lastWrite,           \* lastWrite[c]: what the body of c last stored
  writes,              \* writes[c]: stores into mValue of c
  prodX,               \* prodX[c]: exchanges by the final suspend of c
  consX,               \* consX[c]: exchanges by setAwaitingCoroutine on c
  prodResumes,         \* prodResumes[c]: resume() calls by the final suspend of c
  selfProceed,         \* selfProceed[c]: attaches on c that returned false
  attached,            \* attached[c]: a consumer entered await_suspend on c
  early,               \* early[c]: c continued past its await of an unfinished Task
  mException,          \* TaskPromise<void>::mException ("none" is a null exception_ptr)
  gotVoid              \* gotVoid[c]: what TaskPromise<void>::result() of c produced

protoVars == <<depth, nExt, stack, status, done, rp, mValue, mAwaitingCoroutine,
               mResumeAwaiter, events, crashed, ub>>
taskVars == <<mCoroutine, hState, teardowns, nOps, lastOp>>
ghostVars == <<got, lastWrite, writes, prodX, consX, prodResumes, selfProceed,
               attached, early>>
voidVars == <<mException, gotVoid>>
vars == <<protoVars, taskVars, ghostVars, voidVars>>

\* ---- the Result Cell: TaskPromise<T> ----
return_value(cell, v) == ValueOf(v)
unhandled_exception(cell, e) == FailureOf(e)
\* result(): rethrows a stored exception, otherwise std::get<T>
resultWithoutRethrow(cell) ==
  IF cell.tag = "value" THEN Returned(cell.v) ELSE Raised(BadAccess)
result(cell) ==
  IF cell.tag = "exception" THEN Raised(cell.v)
  ELSE IF cell.tag = "value" THEN Returned(cell.v)
  ELSE Raised(BadAccess)

\* ---- frames and call stacks ----
Frame(c, pc, k, exc) == [co |-> c, pc |-> pc, k |-> k, exc |-> exc]
Top(t) == stack[t][Len(stack[t])]
Pop(s) == SubSeq(s, 1, Len(s) - 1)
SetTop(s, f) == [s EXCEPT ![Len(s)] = f]
Running(t) == ~crashed /\ Len(stack[t]) > 0
At(t, pc) == Running(t) /\ Top(t).pc = pc

HasChild(c) == c < depth
Child(c) == c + 1
\* the statement after k external awaits: the next external await or co_return
AfterAwaits(c, k) == IF k < nExt[c] THEN "ext" ELSE "ret"
InitPc(c) == IF HasChild(c) THEN "call" ELSE AfterAwaits(c, 0)
NoResumePoint == [pc |-> "none", k |-> 0]

\* ---- coroutine_handle::resume() ----
Resumable(d) == d # 0 /\ status[d] = "live" /\ ~done[d] /\ rp[d].pc # "none"
ResumeFrame(d) == Frame(d, rp[d].pc, rp[d].k, NoExc)
UbKind(d) ==
  IF d = 0 THEN "resume_null"
  ELSE IF status[d] # "live" THEN "resume_destroyed"
  ELSE "resume_done"
\* a resumed frame that continues past the co_await of a Task that has not finished
IsEarly(d) == rp[d].pc = "aresume" /\ ~done[Child(d)]
\* thread t, whose stack is base, calls d.resume()
DoResume(t, base, d) ==
  \/ /\ Resumable(d)
     /\ stack' = [stack EXCEPT ![t] = Append(base, ResumeFrame(d))]
     /\ early' = [early EXCEPT ![d] = @ \/ IsEarly(d)]
     /\ UNCHANGED <<crashed, ub>>
  \/ /\ ~Resumable(d)
     /\ \E c \in BOOLEAN : crashed' = c
     /\ stack' = [stack EXCEPT ![t] = base]
     /\ ub' = ub \cup {UbKind(d)}
     /\ UNCHANGED early
  \/ /\ d # 0 /\ status[d] = "destroyed" /\ ~done[d] /\ rp[d].pc # "none"
     /\ stack' = [stack EXCEPT ![t] = Append(base, ResumeFrame(d))]
     /\ early' = [early EXCEPT ![d] = @ \/ IsEarly(d)]
     /\ ub' = ub \cup {UbKind(d)}
     /\ UNCHANGED crashed

\* ---- Task<T> handle operations ----
\* coroutine_handle::destroy()
Destroy(st, c) == [st EXCEPT ![c] = "destroyed"]
\* Task::~Task()
TaskDtor(h) ==
  /\ hState' = [hState EXCEPT ![h] = "dead"]
  /\ IF mCoroutine[h] # 0
       THEN /\ status' = Destroy(status, mCoroutine[h])
            /\ teardowns' = [teardowns EXCEPT ![mCoroutine[h]] = @ + 1]
       ELSE UNCHANGED <<status, teardowns>>
  /\ UNCHANGED mCoroutine

\* ---- the plain function that starts coroutine 1 ----
\* it keeps the Task it gets and does nothing else, so its frame is not kept on
\* the stack under the coroutine's
RootCall(t) ==
  /\ At(t, "root") /\ status[1] = "none"
  /\ stack' = [stack EXCEPT ![t] =
                 SetTop(@, Frame(1, InitPc(1), 0, NoExc))]
  /\ status' = [status EXCEPT ![1] = "live"]
  /\ mCoroutine' = [mCoroutine EXCEPT ![1] = 1]
  /\ hState' = [hState EXCEPT ![1] = "alive"]
  /\ UNCHANGED <<voidVars, depth, nExt, done, rp, mValue, mAwaitingCoroutine, mResumeAwaiter,
                 events, crashed, ub, teardowns, nOps, lastOp, ghostVars>>

\* ---- the body of a coroutine ----
\* calling the child: the frame is created, get_return_object() makes the Task,
\* initial_suspend() is suspend_never so the body starts at once
Call(t) ==
  /\ At(t, "call")
  /\ LET c == Top(t).co  d == Child(Top(t).co) IN
       /\ stack' = [stack EXCEPT ![t] =
                      Append(SetTop(@, Frame(c, "ready", 0, NoExc)),
                             Frame(d, InitPc(d), 0, NoExc))]
       /\ status' = [status EXCEPT ![d] = "live"]
       /\ mCoroutine' = [mCoroutine EXCEPT ![d] = d]
       /\ hState' = [hState EXCEPT ![d] = "alive"]
  /\ UNCHANGED <<voidVars, depth, nExt, done, rp, mValue, mAwaitingCoroutine, mResumeAwaiter,
                 events, crashed, ub, teardowns, nOps, lastOp, ghostVars>>

\* TaskAwaiterBase::await_ready
await_ready(h) == mCoroutine[h] = 0 \/ done[mCoroutine[h]]

\* co_await task: await_ready(); when false the coroutine is suspended (its
\* resume point is stored) and await_suspend() is entered
AwaitReady(t) ==
  /\ At(t, "ready")
  /\ LET c == Top(t).co  d == Child(Top(t).co) IN
       IF await_ready(d)
         THEN /\ stack' = [stack EXCEPT ![t] = SetTop(@, Frame(c, "aresume", 0, NoExc))]
              /\ UNCHANGED <<rp, attached>>
         ELSE /\ stack' = [stack EXCEPT ![t] = SetTop(@, Frame(c, "as_resume", 0, NoExc))]
              /\ rp' = [rp EXCEPT ![c] = [pc |-> "aresume", k |-> 0]]
              /\ attached' = [attached EXCEPT ![d] = TRUE]
  /\ UNCHANGED <<voidVars, depth, nExt, status, done, mValue, mAwaitingCoroutine, mResumeAwaiter,
                 events, crashed, ub, taskVars, got, lastWrite, writes, prodX, consX,
                 prodResumes, selfProceed, early>>

\* TaskAwaiterBase::await_suspend, first statement: mAwaitedCoroutine.resume()
AwaitSuspendResume(t) ==
  /\ At(t, "as_resume")
  /\ LET c == Top(t).co  d == Child(Top(t).co) IN
       DoResume(t, SetTop(stack[t], Frame(c, "as_store", 0, NoExc)), d)
  /\ UNCHANGED <<voidVars, depth, nExt, status, done, rp, mValue, mAwaitingCoroutine,
                 mResumeAwaiter, events, taskVars, got, lastWrite, writes, prodX, consX,
                 prodResumes, selfProceed, attached>>

\* TaskPromiseBase::setAwaitingCoroutine, first statement
SetAwaitingStore(t) ==
  /\ At(t, "as_store")
  /\ LET c == Top(t).co  d == Child(Top(t).co) IN
       /\ mAwaitingCoroutine' = [mAwaitingCoroutine EXCEPT ![d] = c]
       /\ stack' = [stack EXCEPT ![t] = SetTop(@, Frame(c, "as_xchg", 0, NoExc))]
  /\ UNCHANGED <<voidVars, depth, nExt, status, done, rp, mValue, mResumeAwaiter, events,
                 crashed, ub, taskVars, ghostVars>>

\* the value setAwaitingCoroutine returns for the flag value the exchange observed
setAwaitingResultNotNegated(old) == old
setAwaitingResultAlwaysSuspends(old) == TRUE
setAwaitingResult(old) == ~old

\* TaskPromiseBase::setAwaitingCoroutine, the exchange; await_suspend returns its
\* result: true leaves the consumer suspended (control returns to its caller or
\* resumer), false continues it at await_resume
SetAwaitingExchange(t) ==
  /\ At(t, "as_xchg")
  /\ LET c == Top(t).co  d == Child(Top(t).co) IN
       /\ mResumeAwaiter' = [mResumeAwaiter EXCEPT ![d] = TRUE]
       /\ consX' = [consX EXCEPT ![d] = @ + 1]
       /\ IF setAwaitingResult(mResumeAwaiter[d])
            THEN /\ stack' = [stack EXCEPT ![t] = Pop(@)]
                 /\ UNCHANGED selfProceed
            ELSE /\ stack' = [stack EXCEPT ![t] = SetTop(@, Frame(c, "aresume", 0, NoExc))]
                 /\ selfProceed' = [selfProceed EXCEPT ![d] = @ + 1]
  /\ UNCHANGED <<voidVars, depth, nExt, status, done, rp, mValue, mAwaitingCoroutine, events,
                 crashed, ub, taskVars, got, lastWrite, writes, prodX, prodResumes,
                 attached, early>>

\* TaskAwaiter::await_resume: promise().result()
AwaitResume(t) ==
  /\ At(t, "aresume")
  /\ LET c == Top(t).co  d == Child(Top(t).co)  r == result(mValue[Child(Top(t).co)]) IN
       /\ got' = [got EXCEPT ![c] = r]
       /\ stack' = [stack EXCEPT ![t] =
            SetTop(@, Frame(c, "adtor", 0, IF r.kind = "raise" THEN r.v ELSE NoExc))]
  /\ UNCHANGED <<voidVars, depth, nExt, status, done, rp, mValue, mAwaitingCoroutine,
                 mResumeAwaiter, events, crashed, ub, taskVars, lastWrite, writes, prodX,
                 consX, prodResumes, selfProceed, attached, early>>

\* end of the co_await expression: the temporary Task is destroyed; an exception
\* thrown by await_resume leaves the body (there is no handler in it)
TempTaskDtor(t) ==
  /\ At(t, "adtor")
  /\ LET c == Top(t).co  d == Child(Top(t).co)  f == Top(t) IN
       /\ TaskDtor(d)
       /\ stack' = [stack EXCEPT ![t] =
            SetTop(@, Frame(c, IF f.exc # NoExc THEN "ret" ELSE AfterAwaits(c, 0), 0, f.exc))]
  /\ UNCHANGED <<voidVars, depth, nExt, done, rp, mValue, mAwaitingCoroutine, mResumeAwaiter,
                 events, crashed, ub, nOps, lastOp, ghostVars>>

\* co_await of an external awaitable: the coroutine suspends and the awaitable keeps
\* its handle to resume it later
ExtSuspend(t) ==
  /\ At(t, "ext")
  /\ LET c == Top(t).co  k == Top(t).k IN
       /\ rp' = [rp EXCEPT ![c] = [pc |-> AfterAwaits(c, k + 1), k |-> k + 1]]
       /\ events' = [events EXCEPT ![c] = @ + 1]
       /\ stack' = [stack EXCEPT ![t] = Pop(@)]
  /\ UNCHANGED <<voidVars, depth, nExt, status, done, mValue, mAwaitingCoroutine, mResumeAwaiter,
                 crashed, ub, taskVars, ghostVars>>

\* the external awaitable fires on the event loop of thread t
ExtFire(t, c) ==
  /\ ~crashed /\ Len(stack[t]) = 0 /\ events[c] > 0
  /\ events' = [events EXCEPT ![c] = @ - 1]
  /\ DoResume(t, stack[t], c)
  /\ UNCHANGED <<voidVars, depth, nExt, status, done, rp, mValue, mAwaitingCoroutine,
                 mResumeAwaiter, taskVars, got, lastWrite, writes, prodX, consX,
                 prodResumes, selfProceed, attached>>

\* co_return v (return_value), or an exception leaves the body (unhandled_exception)
Return(t) ==
  /\ At(t, "ret")
  /\ LET c == Top(t).co  f == Top(t) IN
       /\ \E o \in {ValueOf(v) : v \in Values} \cup {FailureOf(e) : e \in Failures} :
            LET new == IF f.exc # NoExc THEN unhandled_exception(mValue[c], f.exc)
                       ELSE IF o.tag = "value" THEN return_value(mValue[c], o.v)
                       ELSE unhandled_exception(mValue[c], o.v)
            IN /\ (f.exc # NoExc => o = ValueOf("v1"))
               /\ mValue' = [mValue EXCEPT ![c] = new]
               /\ lastWrite' = [lastWrite EXCEPT ![c] =
                                  IF f.exc # NoExc THEN FailureOf(f.exc) ELSE o]
       /\ writes' = [writes EXCEPT ![c] = @ + 1]
       /\ stack' = [stack EXCEPT ![t] = SetTop(@, Frame(c, "final", 0, NoExc))]
  /\ UNCHANGED <<voidVars, depth, nExt, status, done, rp, mAwaitingCoroutine, mResumeAwaiter,
                 events, crashed, ub, taskVars, got, prodX, consX, prodResumes,
                 selfProceed, attached, early>>

\* co_await final_suspend(): TaskFinalSuspend::await_ready is false, the coroutine
\* is suspended at its final suspend point, done() is true from here on
FinalSuspend(t) ==
  /\ At(t, "final")
  /\ LET c == Top(t).co IN
       /\ done' = [done EXCEPT ![c] = TRUE]
       /\ stack' = [stack EXCEPT ![t] = SetTop(@, Frame(c, "final_xchg", 0, NoExc))]
  /\ UNCHANGED <<voidVars, depth, nExt, status, rp, mValue, mAwaitingCoroutine, mResumeAwaiter,
                 events, crashed, ub, taskVars, ghostVars>>

\* whether TaskFinalSuspend::await_suspend resumes, for the flag value observed
finalResumesAlways(old) == TRUE
finalResumes(old) == old

\* TaskFinalSuspend::await_suspend: the exchange
FinalExchange(t) ==
  /\ At(t, "final_xchg")
  /\ LET c == Top(t).co IN
       /\ mResumeAwaiter' = [mResumeAwaiter EXCEPT ![c] = TRUE]
       /\ prodX' = [prodX EXCEPT ![c] = @ + 1]
       /\ IF finalResumes(mResumeAwaiter[c])
            THEN stack' = [stack EXCEPT ![t] = SetTop(@, Frame(c, "final_resume", 0, NoExc))]
            ELSE stack' = [stack EXCEPT ![t] = Pop(@)]
  /\ UNCHANGED <<voidVars, depth, nExt, status, done, rp, mValue, mAwaitingCoroutine, events,
                 crashed, ub, taskVars, got, lastWrite, writes, consX, prodResumes,
                 selfProceed, attached, early>>

\* TaskFinalSuspend::await_suspend: promise.mAwaitingCoroutine.resume(); nothing
\* follows the call, so the frame of the finished coroutine is not kept under the
\* resumed one
FinalResume(t) ==
  /\ At(t, "final_resume")
  /\ LET c == Top(t).co IN
       /\ prodResumes' = [prodResumes EXCEPT ![c] = @ + 1]
       /\ DoResume(t, Pop(stack[t]), mAwaitingCoroutine[c])
  /\ UNCHANGED <<voidVars, depth, nExt, status, done, rp, mValue, mAwaitingCoroutine,
                 mResumeAwaiter, events, taskVars, got, lastWrite, writes, prodX, consX,
                 selfProceed, attached>>

\* a coroutine body running in a frame that has been destroyed: the access to freed
\* memory crashes (otherwise the steps above go on with the memory as it was)
UseAfterFree(t) ==
  /\ Running(t) /\ Top(t).co # 0 /\ status[Top(t).co] = "destroyed"
  /\ crashed' = TRUE
  /\ ub' = ub \cup {"use_after_free"}
  /\ UNCHANGED <<voidVars, depth, nExt, stack, status, done, rp, mValue, mAwaitingCoroutine,
                 mResumeAwaiter, events, taskVars, ghostVars>>

RECURSIVE SumExt(_, _)
SumExt(f, n) == IF n = 0 THEN 0 ELSE f[n] + SumExt(f, n - 1)

Init ==
  /\ depth \in 1..NCoro
  /\ nExt \in [Coros -> 0..MaxExt]
  /\ \A c \in Coros : c > depth => nExt[c] = 0
  /\ SumExt(nExt, NCoro) <= MaxTotalExt
  /\ stack = [t \in Threads |-> IF t = 1 THEN <<Frame(0, "root", 0, NoExc)>> ELSE <<>>]
  /\ status = [c \in Coros |-> "none"]
  /\ done = [c \in Coros |-> FALSE]
  /\ rp = [c \in Coros |-> NoResumePoint]
  /\ mValue = [c \in Coros |-> Empty]
  /\ mAwaitingCoroutine = [c \in Coros |-> 0]
  /\ mResumeAwaiter = [c \in Coros |-> FALSE]
  /\ events = [c \in Coros |-> 0]
  /\ crashed = FALSE
  /\ ub = {}
  /\ mCoroutine = [h \in Coros |-> 0]
  /\ hState = [h \in Coros |-> "none"]
  /\ teardowns = [c \in Coros |-> 0]
  /\ nOps = 0
  /\ lastOp = "none"
  /\ got = [c \in Coros |-> NotRead]
  /\ lastWrite = [c \in Coros |-> Empty]
  /\ writes = [c \in Coros |-> 0]
  /\ prodX = [c \in Coros |-> 0]
  /\ consX = [c \in Coros |-> 0]
  /\ prodResumes = [c \in Coros |-> 0]
  /\ selfProceed = [c \in Coros |-> 0]
  /\ attached = [c \in Coros |-> FALSE]
  /\ early = [c \in Coros |-> FALSE]
  /\ mException = [c \in Coros |-> NoExc]
  /\ gotVoid = [c \in Coros |-> NotRead]

Next ==
  \E t \in Threads :
    \/ RootCall(t)
    \/ Call(t)
    \/ AwaitReady(t)
    \/ AwaitSuspendResume(t)
    \/ SetAwaitingStore(t)
    \/ SetAwaitingExchange(t)
    \/ AwaitResume(t)
    \/ TempTaskDtor(t)
    \/ ExtSuspend(t)
    \/ Return(t)
    \/ FinalSuspend(t)
    \/ FinalExchange(t)
    \/ FinalResume(t)
    \/ UseAfterFree(t)
    \/ \E c \in Coros : ExtFire(t, c)

Spec == Init /\ [][Next]_vars

\* ---- Task<T> handles on their own: construction, moves, destruction ----
\* Task(Task &&other): mCoroutine(other.mCoroutine), other.mCoroutine = nullptr
MoveCtorNoReset(mc, h, o) == [mc EXCEPT ![h] = mc[o]]
MoveCtor(mc, h, o) == [[mc EXCEPT ![h] = mc[o]] EXCEPT ![o] = 0]
\* operator=(Task &&other), after the destroy: mCoroutine = other.mCoroutine,
\* other.mCoroutine = nullptr
MoveAssign(mc, h, o) == [[mc EXCEPT ![h] = mc[o]] EXCEPT ![o] = 0]

\* explicit Task() noexcept = default
TaskDefaultCtor(h) ==
  /\ ~crashed /\ nOps < MaxOps /\ hState[h] = "none"
  /\ hState' = [hState EXCEPT ![h] = "alive"]
  /\ mCoroutine' = [mCoroutine EXCEPT ![h] = 0]
  /\ nOps' = nOps + 1 /\ lastOp' = "default"
  /\ UNCHANGED <<voidVars, protoVars, teardowns, ghostVars>>

\* a coroutine is called: get_return_object() returns Task(coroutine_handle)
TaskFromCoroutine(h, c) ==
  /\ ~crashed /\ nOps < MaxOps /\ hState[h] = "none" /\ status[c] = "none"
  /\ hState' = [hState EXCEPT ![h] = "alive"]
  /\ mCoroutine' = [mCoroutine EXCEPT ![h] = c]
  /\ status' = [status EXCEPT ![c] = "live"]
  /\ nOps' = nOps + 1 /\ lastOp' = "create"
  /\ UNCHANGED <<voidVars, depth, nExt, stack, done, rp, mValue, mAwaitingCoroutine,
                 mResumeAwaiter, events, crashed, ub, teardowns, ghostVars>>

\* Task(Task &&other)
TaskMoveCtor(h, o) ==
  /\ ~crashed /\ nOps < MaxOps /\ hState[h] = "none" /\ hState[o] = "alive"
  /\ hState' = [hState EXCEPT ![h] = "alive"]
  /\ mCoroutine' = MoveCtor(mCoroutine, h, o)
  /\ nOps' = nOps + 1 /\ lastOp' = "move_ctor"
  /\ UNCHANGED <<voidVars, protoVars, teardowns, ghostVars>>

\* Task &operator=(Task &&other); h = o is a self-move-assignment
TaskMoveAssign(h, o) ==
  /\ ~crashed /\ nOps < MaxOps /\ hState[h] = "alive" /\ hState[o] = "alive"
  /\ IF mCoroutine[h] # 0
       THEN /\ status' = Destroy(status, mCoroutine[h])
            /\ teardowns' = [teardowns EXCEPT ![mCoroutine[h]] = @ + 1]
       ELSE UNCHANGED <<status, teardowns>>
  /\ mCoroutine' = MoveAssign(mCoroutine, h, o)
  /\ nOps' = nOps + 1 /\ lastOp' = "move_assign"
  /\ UNCHANGED <<voidVars, depth, nExt, stack, done, rp, mValue, mAwaitingCoroutine,
                 mResumeAwaiter, events, crashed, ub, hState, ghostVars>>

\* ~Task()
TaskDestructor(h) ==
  /\ ~crashed /\ nOps < MaxOps /\ hState[h] = "alive"
  /\ TaskDtor(h)
  /\ nOps' = nOps + 1 /\ lastOp' = "dtor"
  /\ UNCHANGED <<voidVars, depth, nExt, stack, done, rp, mValue, mAwaitingCoroutine,
                 mResumeAwaiter, events, crashed, ub, ghostVars>>

\* Task::isReady
isReady(h) == mCoroutine[h] = 0 \/ done[mCoroutine[h]]

\* the body of coroutine c runs to its end while Task objects reference it: the
\* result is stored and the coroutine is suspended at its final suspend point
TaskCoroutineFinishes(c) ==
  /\ ~crashed /\ nOps < MaxOps /\ status[c] = "live" /\ ~done[c]
  /\ \E o \in {ValueOf(v) : v \in Values} \cup {FailureOf(e) : e \in Failures} :
       mValue' = [mValue EXCEPT ![c] =
                    IF o.tag = "value" THEN return_value(@, o.v)
                    ELSE unhandled_exception(@, o.v)]
  /\ done' = [done EXCEPT ![c] = TRUE]
  /\ nOps' = nOps + 1 /\ lastOp' = "finish"
  /\ UNCHANGED <<voidVars, depth, nExt, stack, status, rp, mAwaitingCoroutine,
                 mResumeAwaiter, events, crashed, ub, mCoroutine, hState, teardowns,
                 ghostVars>>

\* what await_resume can produce when mAwaitedCoroutine is null: promise() of a
\* null handle is not an object, result() reads whatever is there
GarbageResults == {Returned(v) : v \in Values} \cup {Raised(e) : e \in Failures}
                    \cup {Raised(BadAccess)}

\* co_await on Task h whose await_ready() is true: await_suspend is skipped and
\* await_resume runs at once.  For a null mCoroutine the Q_ASSERT in await_resume
\* aborts (debug build) or promise() is applied to a null handle (undefined).
TaskAwaitReady(h) ==
  /\ ~crashed /\ nOps < MaxOps /\ hState[h] = "alive"
  /\ await_ready(h) = TRUE
  /\ IF mCoroutine[h] # 0
       THEN /\ got' = [got EXCEPT ![h] = result(mValue[mCoroutine[h]])]
            /\ UNCHANGED <<crashed, ub>>
       ELSE /\ ub' = ub \cup {"promise_null"}
            /\ \/ crashed' = TRUE /\ UNCHANGED got
               \/ /\ UNCHANGED crashed
                  /\ \E g \in GarbageResults : got' = [got EXCEPT ![h] = g]
  /\ nOps' = nOps + 1 /\ lastOp' = "await_ready"
  /\ UNCHANGED <<voidVars, depth, nExt, stack, status, done, rp, mValue,
                 mAwaitingCoroutine, mResumeAwaiter, events, mCoroutine, hState,
                 teardowns, lastWrite, writes, prodX, consX, prodResumes, selfProceed,
                 attached, early>>


InitTask ==
  /\ depth = 1
  /\ nExt = [c \in Coros |-> 0]
  /\ stack = [t \in Threads |-> <<>>]
  /\ status = [c \in TaskCoros |-> "none"]
  /\ done = [c \in TaskCoros |-> FALSE]
  /\ rp = [c \in Coros |-> NoResumePoint]
  /\ mValue = [c \in TaskCoros |-> Empty]
  /\ mAwaitingCoroutine = [c \in Coros |-> 0]
  /\ mResumeAwaiter = [c \in Coros |-> FALSE]
  /\ events = [c \in Coros |-> 0]
  /\ crashed = FALSE
  /\ ub = {}
  /\ mCoroutine = [h \in Handles |-> 0]
  /\ hState = [h \in Handles |-> "none"]
  /\ teardowns = [c \in TaskCoros |-> 0]
  /\ nOps = 0
  /\ lastOp = "none"
  /\ got = [h \in Handles |-> NotRead]
  /\ lastWrite = [c \in Coros |-> Empty]
  /\ writes = [c \in Coros |-> 0]
  /\ prodX = [c \in Coros |-> 0]
  /\ consX = [c \in Coros |-> 0]
  /\ prodResumes = [c \in Coros |-> 0]
  /\ selfProceed = [c \in Coros |-> 0]
  /\ attached = [c \in Coros |-> FALSE]
  /\ early = [c \in Coros |-> FALSE]
  /\ mException = [c \in Coros |-> NoExc]
  /\ gotVoid = [c \in Coros |-> NotRead]

NextTask ==
  \E h \in Handles :
    \/ TaskDefaultCtor(h)
    \/ \E c \in TaskCoros : TaskFromCoroutine(h, c)
    \/ \E o \in Handles : TaskMoveCtor(h, o)
    \/ \E o \in Handles : TaskMoveAssign(h, o)
    \/ TaskDestructor(h)
    \/ TaskAwaitReady(h)
    \/ \E c \in TaskCoros : TaskCoroutineFinishes(c)

SpecTask == InitTask /\ [][NextTask]_vars

\* ---- the result of a finished coroutine, typed and void promise side by side ----
\* Promise c is completed once, as a TaskPromise<T> (mValue) and as a
\* TaskPromise<void> (mException) in the same way, and read at any time.
Payloads == {"e1", "e2"}
ReturnedVoid == [kind |-> "return", v |-> "void"]
\* TaskPromise<void>::unhandled_exception: mException = std::current_exception()
unhandled_exception_void(exc, e) == e
\* TaskPromise<void>::return_void: empty body
return_void(exc) == exc
\* TaskPromise<void>::result(): rethrows mException if it is not null
resultVoidWithoutRethrow(exc) == ReturnedVoid
resultVoid(exc) == IF exc # NoExc THEN Raised(exc) ELSE ReturnedVoid

\* the body ends with co_return (a value for Task<T>, nothing for Task<void>)
CompleteNormally(c, v) ==
  /\ ~done[c]
  /\ mValue' = [mValue EXCEPT ![c] = return_value(@, v)]
  /\ mException' = [mException EXCEPT ![c] = return_void(@)]
  /\ lastWrite' = [lastWrite EXCEPT ![c] = ValueOf(v)]
  /\ writes' = [writes EXCEPT ![c] = @ + 1]
  /\ done' = [done EXCEPT ![c] = TRUE]
  /\ UNCHANGED <<depth, nExt, stack, status, rp, mAwaitingCoroutine, mResumeAwaiter,
                 events, crashed, ub, taskVars, got, prodX, consX, prodResumes,
                 selfProceed, attached, early, gotVoid>>

\* an exception leaves the body
CompleteByException(c, e) ==
  /\ ~done[c]
  /\ mValue' = [mValue EXCEPT ![c] = unhandled_exception(@, e)]
  /\ mException' = [mException EXCEPT ![c] = unhandled_exception_void(@, e)]
  /\ lastWrite' = [lastWrite EXCEPT ![c] = FailureOf(e)]
  /\ writes' = [writes EXCEPT ![c] = @ + 1]
  /\ done' = [done EXCEPT ![c] = TRUE]
  /\ UNCHANGED <<depth, nExt, stack, status, rp, mAwaitingCoroutine, mResumeAwaiter,
                 events, crashed, ub, taskVars, got, prodX, consX, prodResumes,
                 selfProceed, attached, early, gotVoid>>

\* promise().result() of both promises
ReadResult(c) ==
  /\ got' = [got EXCEPT ![c] = result(mValue[c])]
  /\ gotVoid' = [gotVoid EXCEPT ![c] = resultVoid(mException[c])]
  /\ UNCHANGED <<protoVars, taskVars, lastWrite, writes, prodX, consX, prodResumes,
                 selfProceed, attached, early, mException>>

InitResult ==
  /\ depth = NCoro
  /\ nExt = [c \in Coros |-> 0]
  /\ stack = [t \in Threads |-> <<>>]
  /\ status = [c \in Coros |-> "live"]
  /\ done = [c \in Coros |-> FALSE]
  /\ rp = [c \in Coros |-> NoResumePoint]
  /\ mValue = [c \in Coros |-> Empty]
  /\ mAwaitingCoroutine = [c \in Coros |-> 0]
  /\ mResumeAwaiter = [c \in Coros |-> FALSE]
  /\ events = [c \in Coros |-> 0]
  /\ crashed = FALSE
  /\ ub = {}
  /\ mCoroutine = [h \in Coros |-> h]
  /\ hState = [h \in Coros |-> "alive"]
  /\ teardowns = [c \in Coros |-> 0]
  /\ nOps = 0
  /\ lastOp = "none"
  /\ got = [c \in Coros |-> NotRead]
  /\ lastWrite = [c \in Coros |-> Empty]
  /\ writes = [c \in Coros |-> 0]
  /\ prodX = [c \in Coros |-> 0]
  /\ consX = [c \in Coros |-> 0]
  /\ prodResumes = [c \in Coros |-> 0]
  /\ selfProceed = [c \in Coros |-> 0]
  /\ attached = [c \in Coros |-> FALSE]
  /\ early = [c \in Coros |-> FALSE]
  /\ mException = [c \in Coros |-> NoExc]
  /\ gotVoid = [c \in Coros |-> NotRead]

NextResult ==
  \E c \in Coros :
    \/ \E v \in Values : CompleteNormally(c, v)
    \/ \E e \in Payloads : CompleteByException(c, e)
    \/ ReadResult(c)

SpecResult == InitResult /\ [][NextResult]_vars

\* ---- properties ----
Positions == UNION {{<<t, i>> : i \in DOMAIN stack[t]} : t \in Threads}
\* the frames of coroutine c, on any stack, that are at one of the places pcs
FramesOf(c, pcs) ==
  {p \in Positions : stack[p[1]][p[2]].co = c /\ stack[p[1]][p[2]].pc \in pcs}
\* the awaited coroutines: d is awaited by d - 1
IsLink(d) == d >= 2 /\ d <= depth
\* the completion path of d has exchanged, seen true, and is about to call resume()
ResumePending(d) == Cardinality(FramesOf(d, {"final_resume"}))
\* consumer c attached to its child, was told to suspend, and has not continued
Suspended(c) ==
  /\ consX[Child(c)] >= 1 /\ selfProceed[Child(c)] = 0
  /\ got[c] = NotRead /\ ~done[c]
  /\ FramesOf(c, {"as_xchg", "aresume", "adtor", "ext", "ret", "final"}) = {}
\* nothing can happen any more: the process crashed, or no thread runs and no
\* external awaitable is pending
Halted ==
  \/ crashed
  \/ (\A t \in Threads : Len(stack[t]) = 0) /\ (\A c \in Coros : events[c] = 0)

\* C1: for every awaited coroutine d, the consumer is continued exactly once in
\* total: the completion path of d calls resume() on it or the attach returns
\* "do not suspend", never both, and never neither once both have exchanged.
C1_ExactlyOneResume ==
  \A d \in Coros : IsLink(d) =>
    LET n == prodResumes[d] + ResumePending(d) + selfProceed[d] IN
      /\ n <= 1
      /\ (prodX[d] >= 1 /\ consX[d] >= 1) => n = 1

\* C2: no lost wake-up: whenever a consumer is suspended on d (its exchange saw
\* false) and d has finished and exchanged, the process is still able to run and
\* the completion path of d is about to resume the consumer.
C2_NoLostWakeup ==
  \A d \in Coros : (IsLink(d) /\ Suspended(d - 1) /\ prodX[d] >= 1) =>
    (~Halted /\ ResumePending(d) >= 1)

\* C3: a coroutine suspended at its co_await of a Task is resumed only after the
\* awaited coroutine has reached its end.
C3_ResumedAfterAwaitedEnds == \A c \in Coros : ~early[c]

\* C4: chaining liveness, as the final result: when nothing can happen any more and
\* the innermost coroutine has reached its end, every coroutine of the chain has.
C4_ChainCompletes ==
  (Halted /\ done[depth]) => \A c \in Coros : c <= depth => done[c]

\* C5: whenever a consumer is about to read the result of the awaited coroutine
\* (await_resume), that coroutine has reached its end and its mValue is not empty.
C5_ReadOnlyAfterEnd ==
  \A t \in Threads : At(t, "aresume") =>
    (done[Child(Top(t).co)] /\ mValue[Child(Top(t).co)] # Empty)

\* C6: if the awaited coroutine exchanged before the consumer does, the attach
\* returns false, the consumer goes on to await_resume without suspending, and the
\* result it then reads is not empty.
C6_ProducerFirstNoSuspend ==
  [][\A t \in Threads :
       /\ (SetAwaitingExchange(t) /\ prodX[Child(Top(t).co)] >= 1) =>
            /\ stack'[t] = SetTop(stack[t], Frame(Top(t).co, "aresume", 0, NoExc))
            /\ selfProceed'[Child(Top(t).co)] = selfProceed[Child(Top(t).co)] + 1
            /\ mValue[Child(Top(t).co)] # Empty
       /\ (AwaitResume(t) /\ selfProceed[Child(Top(t).co)] >= 1) =>
            /\ mValue[Child(Top(t).co)] # Empty
            /\ got'[Top(t).co] # Raised(BadAccess) \/ mValue[Child(Top(t).co)].tag = "exception"
    ]_vars
C6_Witness ==
  \E d \in Coros : /\ IsLink(d) /\ prodX[d] >= 1 /\ selfProceed[d] >= 1
                   /\ got[d - 1].kind = "return"

\* C7: a coroutine that no consumer attached to and that has finished made no
\* resume() call, its link is null, and its result is stored while its frame lives.
C7_NoConsumerNoResume ==
  \A c \in Coros : (~attached[c] /\ prodX[c] >= 1) =>
    /\ prodResumes[c] = 0 /\ ResumePending(c) = 0
    /\ mAwaitingCoroutine[c] = 0
    /\ status[c] = "live" => mValue[c] # Empty

\* C8: round trip of the result: a read of a cell last written by return_value(v)
\* returns v, a read of a cell last written by unhandled_exception(e) raises e.
C8_ResultRoundTrip ==
  [][\A t \in Threads :
       (AwaitResume(t) /\ lastWrite[Child(Top(t).co)] # Empty) =>
         got'[Top(t).co] =
           (IF lastWrite[Child(Top(t).co)].tag = "value"
              THEN Returned(lastWrite[Child(Top(t).co)].v)
              ELSE Raised(lastWrite[Child(Top(t).co)].v))
    ]_vars
C8_Witness ==
  \E c \in Coros : /\ c < depth /\ got[c] = Returned("v2")
                   /\ lastWrite[Child(c)] = ValueOf("v2")

\* C9: mValue of every coroutine is written at most once, and once it is not empty
\* no step changes it.
C9_WrittenOnce ==
  [][\A c \in Coros : /\ writes'[c] <= 1
                      /\ mValue[c] # Empty => mValue'[c] = mValue[c]]_vars

\* C10: every coroutine is referenced by at most one living Task; a move leaves the
\* source null and makes a different destination reference the source's coroutine.
Owners(c) == {h \in DOMAIN mCoroutine : hState[h] = "alive" /\ mCoroutine[h] = c}
C10_SingleOwner ==
  [][/\ \A c \in TaskCoros : Cardinality(Owners(c))' <= 1
     /\ \A h, o \in Handles :
          (TaskMoveCtor(h, o) \/ TaskMoveAssign(h, o)) =>
            /\ mCoroutine'[o] = 0
            /\ h # o => mCoroutine'[h] = mCoroutine[o]
    ]_vars
C10_Witness ==
  /\ lastOp \in {"move_ctor", "move_assign"}
  /\ \E h, o \in Handles : /\ h # o /\ hState[h] = "alive" /\ hState[o] = "alive"
                           /\ mCoroutine[h] # 0 /\ mCoroutine[o] = 0

\* C11: every coroutine frame is torn down at most once; destroying a Task tears
\* down exactly the coroutine it references (none for a null, moved-from Task);
\* a move-assignment into a Task that references a coroutine, self-move-assignment
\* included, tears that coroutine down once; no living Task is left referencing a
\* torn-down coroutine.
C11_TornDownOnce ==
  [][/\ \A c \in DOMAIN teardowns : teardowns'[c] <= 1
     /\ \A h \in DOMAIN hState : (hState[h] = "alive" /\ hState'[h] = "dead") =>
          \A c \in DOMAIN teardowns :
            teardowns'[c] = teardowns[c] + (IF mCoroutine[h] = c THEN 1 ELSE 0)
     /\ \A h, o \in Handles : TaskMoveAssign(h, o) =>
          \A c \in DOMAIN teardowns :
            teardowns'[c] = teardowns[c] + (IF mCoroutine[h] = c THEN 1 ELSE 0)
     /\ \A h \in DOMAIN hState : (hState'[h] = "alive" /\ mCoroutine'[h] # 0) =>
          status'[mCoroutine'[h]] = "live"
    ]_vars

\* C12: whenever a Task's destructor or move-assignment destroys a coroutine frame,
\* that coroutine has reached its final suspend point.
C12_DestroyedOnlyWhenDone ==
  [][\A c \in DOMAIN teardowns : teardowns'[c] > teardowns[c] => done[c]]_vars

\* C13: read of a finished void coroutine returns nothing when no exception was
\* stored and rethrows the stored exception otherwise; its outcome is that of the
\* typed promise completed in the same way: both return, or both raise the same
\* exception.
C13_VoidReadMatchesTyped ==
  [][\A c \in Coros : (ReadResult(c) /\ done[c]) =>
       /\ gotVoid'[c] = (IF lastWrite[c].tag = "exception"
                           THEN Raised(lastWrite[c].v) ELSE ReturnedVoid)
       /\ gotVoid'[c].kind = got'[c].kind
       /\ gotVoid'[c].kind = "raise" => gotVoid'[c].v = got'[c].v
    ]_vars
C13_Witness ==
  \E c, d \in Coros :
    /\ done[c] /\ gotVoid[c] = Raised("e2") /\ got[c] = Raised("e2")
    /\ done[d] /\ gotVoid[d] = ReturnedVoid /\ got[d] = Returned("v1")

\* C14: isReady() and await_ready() are true exactly when the Task references no
\* coroutine or a finished one; a co_await whose await_ready() is true completes
\* without suspending: it produces the stored result of the coroutine (nothing for
\* a Task without one), nothing undefined happens, and mResumeAwaiter and
\* mAwaitingCoroutine of every coroutine are left as they were.
C14_ReadyAwaitCompletes ==
  [][\A h \in Handles :
       /\ hState[h] = "alive" =>
            /\ isReady(h) <=> (mCoroutine[h] = 0 \/ done[mCoroutine[h]])
            /\ await_ready(h) <=> isReady(h)
       /\ TaskAwaitReady(h) =>
            /\ ~crashed' /\ ub' = ub
            /\ mResumeAwaiter' = mResumeAwaiter
            /\ mAwaitingCoroutine' = mAwaitingCoroutine
            /\ mCoroutine[h] # 0 => got'[h] = result(mValue[mCoroutine[h]])
            /\ mCoroutine[h] = 0 => got'[h] = got[h]
    ]_vars

\* C15: mResumeAwaiter of every coroutine starts false, is never set back to false,
\* and over all exchanges on it exactly the first observes false and at most one
\* more exchange is made (which observes true).
C15_FlagSetOnce ==
  [][\A c \in Coros :
       /\ (prodX[c] + consX[c] = 0) => ~mResumeAwaiter[c]
       /\ mResumeAwaiter[c] => mResumeAwaiter'[c]
       /\ (prodX'[c] + consX'[c] > prodX[c] + consX[c]) =>
            /\ mResumeAwaiter'[c]
            /\ ~mResumeAwaiter[c] <=> (prodX[c] + consX[c] = 0)
       /\ prodX'[c] + consX'[c] <= 2
    ]_vars

\* C16: mAwaitingCoroutine of a coroutine is written at most once, by the consumer
\* and before the consumer's exchange; whenever the completion path reads it to
\* resume it, it holds the consumer (not null, and a coroutine that is suspended
\* and alive), and the completion path reads it at most once.
C16_LinkWrittenOnceReadValid ==
  [][\A t \in Threads :
       /\ SetAwaitingStore(t) =>
            /\ mAwaitingCoroutine[Child(Top(t).co)] = 0
            /\ consX[Child(Top(t).co)] = 0
       /\ SetAwaitingExchange(t) => mAwaitingCoroutine[Child(Top(t).co)] = Top(t).co
       /\ FinalResume(t) =>
            /\ prodResumes[Top(t).co] = 0
            /\ mAwaitingCoroutine[Top(t).co] # 0
            /\ mAwaitingCoroutine[Top(t).co] = Top(t).co - 1
            /\ status[Top(t).co - 1] = "live" /\ ~done[Top(t).co - 1]
    ]_vars

\* C17: a coroutine at its end has stored its result and exchanges its flag to
\* true; if the exchange observed true the next thing it does, on the same thread,
\* is resume() of mAwaitingCoroutine; if it observed false it returns to its caller
\* or resumer and nothing else changes: no resume, and the link, the results, the
\* resume points and every other thread are as they were.
C17_ProducerSide ==
  [][\A t \in Threads :
       /\ FinalExchange(t) =>
            /\ mValue[Top(t).co] # Empty
            /\ mResumeAwaiter'[Top(t).co]
            /\ mResumeAwaiter[Top(t).co] =>
                 stack'[t] = SetTop(stack[t], Frame(Top(t).co, "final_resume", 0, NoExc))
            /\ ~mResumeAwaiter[Top(t).co] => stack'[t] = Pop(stack[t])
            /\ \A u \in Threads \ {t} : stack'[u] = stack[u]
            /\ UNCHANGED <<mAwaitingCoroutine, mValue, rp, status, done, got, events,
                           prodResumes, crashed, ub>>
       /\ FinalResume(t) =>
            /\ Resumable(mAwaitingCoroutine[Top(t).co]) =>
                 stack'[t] = Append(Pop(stack[t]), ResumeFrame(mAwaitingCoroutine[Top(t).co]))
            /\ UNCHANGED <<mAwaitingCoroutine, mValue, mResumeAwaiter>>
    ]_vars
C17_Witness ==
  \E d \in Coros :
    /\ IsLink(d) /\ prodX[d] = 1 /\ prodResumes[d] = 1 /\ got[d - 1].kind = "return"
    /\ done[1] /\ prodX[1] = 1 /\ prodResumes[1] = 0 /\ ~crashed /\ ub = {}

\* C18: the attach suspends the consumer exactly when its exchange observed false
\* (otherwise the consumer continues at await_resume), and a coroutine that is
\* inside a co_await of a Task leaves its thread at no other step.
AwaitPcs == {"ready", "as_resume", "as_store", "as_xchg", "aresume", "adtor"}
C18_SuspendsIffObservedFalse ==
  [][\A t \in Threads :
       /\ SetAwaitingExchange(t) =>
            /\ ~mResumeAwaiter[Child(Top(t).co)] => stack'[t] = Pop(stack[t])
            /\ mResumeAwaiter[Child(Top(t).co)] =>
                 stack'[t] = SetTop(stack[t], Frame(Top(t).co, "aresume", 0, NoExc))
       /\ (Running(t) /\ Top(t).pc \in AwaitPcs /\ stack'[t] = Pop(stack[t])) =>
            /\ SetAwaitingExchange(t)
            /\ ~mResumeAwaiter[Child(Top(t).co)]
    ]_vars
C18_Witness ==
  /\ \E d \in Coros : /\ IsLink(d) /\ consX[d] = 1 /\ selfProceed[d] = 0
                      /\ prodResumes[d] = 1 /\ got[d - 1].kind = "return"
  /\ \E d \in Coros : IsLink(d) /\ consX[d] = 1 /\ selfProceed[d] = 1

\* C19: a coroutine that has reached its final suspend point is never resumed
\* again: no resume() call, and in particular not the one in await_suspend, is
\* applied to a coroutine whose done() is true.
C19_FinishedNeverResumed ==
  [][\A t \in Threads :
       /\ AwaitSuspendResume(t) => ~done[Child(Top(t).co)]
       /\ FinalResume(t) =>
            (mAwaitingCoroutine[Top(t).co] # 0 => ~done[mAwaitingCoroutine[Top(t).co]])
       /\ \A c \in Coros : ExtFire(t, c) => ~done[c]
    ]_vars

\* C20: the code of one coroutine is run by at most one thread at a time: no
\* coroutine has frames on the call stacks of two threads.
ThreadsRunning(c) == {t \in Threads : \E i \in DOMAIN stack[t] : stack[t][i].co = c}
C20_OneThreadPerCoroutine ==
  \A c \in Coros : Cardinality(ThreadsRunning(c)) <= 1

====
